---------------------------- MODULE Spec2Model ----------------------------
(***************************************************************************)
(* Model of the Warehouse-Robot repository:                                *)
(*   warehouseRobot.py      WarehouseRobot   (the grid world)              *)
(*   warehouseRobotEnv.py   WarehouseRobotEnv (the gymnasium adapter)      *)
(*   warehouseRobotTrain.py run_q            (tabular Q-learning)          *)
(* One environment object lives in a behaviour.  Spec drives it by an      *)
(* arbitrary client of the gymnasium interface, TrainSpec by run_q.        *)
(***************************************************************************)
EXTENDS Integers, Sequences, FiniteSets, TLC

(***************************************************************************)
(* Bounds of the model.                                                    *)
(***************************************************************************)
MaxRows == 3
MaxCols == 3
MaxPos == 3
MaxSteps == 4

(***************************************************************************)
(* class RobotAction(Enum)                                                 *)
(***************************************************************************)
LEFT == 0
DOWN == 1
RIGHT == 2
UP == 3

RobotAction == {LEFT, DOWN, RIGHT, UP}

\* Action indices a caller may pass that RobotAction(action) rejects.
InvalidActions == {-1, 4}

\* Arguments tried for grid_rows and grid_cols (1 is too small for a goal).
RowArgs == 1..MaxRows
ColArgs == 1..MaxCols

\* Seeds a caller passes to reset; <<>> stands for seed=None.
Seeds == {0, 1}
SeedArgs == {<<>>} \cup {<<k>> : k \in Seeds}

VARIABLES
    obj,           \* "new", "ready" or "failed": construction of the environment
    grid_rows,     \* WarehouseRobot.grid_rows
    grid_cols,     \* WarehouseRobot.grid_cols
    robot_pos,     \* WarehouseRobot.robot_pos, <<>> before it is assigned
    target_pos,    \* WarehouseRobot.target_pos, <<>> before it is assigned
    last_action,   \* WarehouseRobot.last_action, <<>> for ''
    rng,           \* state of the module-level generator of `random`
    tape,          \* what that generator yields after random.seed(k)
    ret,           \* the last call of the environment and what it returned
    first_goal,    \* history: the target the first reset(seed=k) placed
    repeated       \* history: the last call was a reset with a seed used before

envVars == <<obj, grid_rows, grid_cols, robot_pos, target_pos,
             last_action, rng, tape, ret, first_goal, repeated>>

\* run_q: its parameters, its locals, its position and the artifact it reads
\* and writes.
VARIABLES
    episodes,           \* parameter episodes
    is_training,        \* parameter is_training
    pkl,                \* content of v0_warehouse_solution.pkl, <<>> when absent
    pc,                 \* "start", "for", "while", "decay", "done" or "failed"
    q,                  \* the Q-table, <<>> before it is assigned
    epsilon,            \* exploration rate, fixed point
    steps_per_episode,  \* step count of episode i at index i + 1
    step_count,
    i,                  \* index of the for loop
    state,
    terminated,
    branch,             \* "random" (line 77) or "greedy" (line 83), "none" before
    action,
    reward,
    sum_steps,          \* the moving average handed to the plot, <<>> before
    reset_calls,        \* history: env.reset calls the run has made
    step_calls          \* history: env.step calls since the last env.reset

history == <<reset_calls, step_calls>>

runVars == <<episodes, is_training, pkl, pc, q, epsilon, steps_per_episode,
             step_count, i, state, terminated, branch, action, reward,
             sum_steps, history>>

(***************************************************************************)
(* The `random` module.  Its generator is one process-wide object.         *)
(* random.seed(None) seeds it from operating-system entropy: what it       *)
(* yields afterwards is not predictable, src = <<>>.  random.seed(k) puts  *)
(* it in a state that depends on k alone: src = <<k>>, pos = number of     *)
(* values drawn since.  The generator is deterministic, so the value drawn *)
(* at (k, pos) is the same every time; tape[k] records the values drawn at *)
(* positions 0 and 1 once they are known.                                  *)
(***************************************************************************)
OsEntropy == [src |-> <<>>, pos |-> 0]

TapeLen == 2

\* random.seed(seed)
Seeded(seed) == IF seed = <<>> THEN OsEntropy ELSE [src |-> seed, pos |-> 0]

\* The values random.randint(lo, hi) can return in generator state g.
RandintValues(g, tp, lo, hi) ==
    IF g.src # <<>> /\ g.pos < Len(tp[g.src[1]])
    THEN {tp[g.src[1]][g.pos + 1]}
    ELSE lo..hi

\* The generator after one value was drawn in state g.
Advance(g) == IF g.src = <<>> THEN g ELSE [g EXCEPT !.pos = g.pos + 1]

\* The tape after value v was drawn in state g.
Record(g, tp, v) ==
    IF g.src # <<>> /\ g.pos = Len(tp[g.src[1]]) /\ g.pos < TapeLen
    THEN [tp EXCEPT ![g.src[1]] = Append(@, v)]
    ELSE tp

(***************************************************************************)
(* WarehouseRobot                                                          *)
(***************************************************************************)
\* Move without the four boundary tests.
MoveNoClamp(pos, robot_action, rows, cols) ==
    IF robot_action = LEFT THEN <<pos[1], pos[2] - 1>>
    ELSE IF robot_action = RIGHT THEN <<pos[1], pos[2] + 1>>
    ELSE IF robot_action = UP THEN <<pos[1] - 1, pos[2]>>
    ELSE IF robot_action = DOWN THEN <<pos[1] + 1, pos[2]>>
    ELSE pos

\* Move with the branches of UP and DOWN exchanged.
MoveUpDownSwapped(pos, robot_action, rows, cols) ==
    IF robot_action = LEFT
    THEN IF pos[2] > 0 THEN <<pos[1], pos[2] - 1>> ELSE pos
    ELSE IF robot_action = RIGHT
    THEN IF pos[2] < cols - 1 THEN <<pos[1], pos[2] + 1>> ELSE pos
    ELSE IF robot_action = DOWN
    THEN IF pos[1] > 0 THEN <<pos[1] - 1, pos[2]>> ELSE pos
    ELSE IF robot_action = UP
    THEN IF pos[1] < rows - 1 THEN <<pos[1] + 1, pos[2]>> ELSE pos
    ELSE pos

\* perform_action, lines 125-136: the robot's position after the move.
Move(pos, robot_action, rows, cols) ==
    IF robot_action = LEFT
    THEN IF pos[2] > 0 THEN <<pos[1], pos[2] - 1>> ELSE pos
    ELSE IF robot_action = RIGHT
    THEN IF pos[2] < cols - 1 THEN <<pos[1], pos[2] + 1>> ELSE pos
    ELSE IF robot_action = UP
    THEN IF pos[1] > 0 THEN <<pos[1] - 1, pos[2]>> ELSE pos
    ELSE IF robot_action = DOWN
    THEN IF pos[1] < rows - 1 THEN <<pos[1] + 1, pos[2]>> ELSE pos
    ELSE pos

\* TargetReached comparing the columns alone.
TargetReachedColOnly(pos, target) == pos[2] = target[2]

\* TargetReached comparing the rows alone.
TargetReachedRowOnly(pos, target) == pos[1] = target[1]

\* perform_action, line 139: return self.robot_pos == self.target_pos
TargetReached(pos, target) == pos = target

\* StartPos of a reset that leaves a placed robot where it is.
StartPosKept == IF robot_pos = <<>> THEN <<0, 0>> ELSE robot_pos

\* reset, line 112: the robot's starting position
StartPos == <<0, 0>>

\* ResetSeed of a reset that does not call random.seed.
ResetSeedSkipped(seed) == rng

\* reset, line 115: the generator state random.seed(seed) leaves
ResetSeed(seed) == Seeded(seed)

\* RandintRow and RandintCol drawing from 0.
RandintRowFromZero(rows) == [lo |-> 0, hi |-> rows - 1]

RandintColFromZero(cols) == [lo |-> 0, hi |-> cols - 1]

\* reset, lines 117-118: the arguments of the two random.randint calls
RandintRow(rows) == [lo |-> 1, hi |-> rows - 1]

RandintCol(cols) == [lo |-> 1, hi |-> cols - 1]

\* random.randint(lo, hi) raises ValueError on an empty range.
EmptyRange(b) == b.hi < b.lo

(***************************************************************************)
(* What the last call of the environment's interface was and how it ended: *)
(* call is "none", "init", "reset" or "step", arg its argument (<<>> for   *)
(* none), kind is "ok" or the exception raised, the rest what was returned.*)
(***************************************************************************)
NoCall == [call |-> "none", arg |-> <<>>, kind |-> "ok", obs |-> <<>>,
           reward |-> 0, terminated |-> FALSE, truncated |-> FALSE,
           info |-> <<>>]

Called(call, arg) == [NoCall EXCEPT !.call = call, !.arg = arg]

Raised(call, arg, exc) == [NoCall EXCEPT !.call = call, !.arg = arg, !.kind = exc]

(***************************************************************************)
(* WarehouseRobot.reset(seed).  When a randint raises, the assignment of   *)
(* target_pos never happens.                                               *)
(***************************************************************************)
\* reset succeeds: both draws are made and target_pos is assigned.
RobotResetOk(seed) ==
    /\ ~EmptyRange(RandintRow(grid_rows))
    /\ ~EmptyRange(RandintCol(grid_cols))
    /\ LET g0 == ResetSeed(seed)
           rb == RandintRow(grid_rows)
           cb == RandintCol(grid_cols)
       IN \E r \in RandintValues(g0, tape, rb.lo, rb.hi) :
            LET t1 == Record(g0, tape, r)
                g1 == Advance(g0)
            IN \E c \in RandintValues(g1, t1, cb.lo, cb.hi) :
                 /\ robot_pos' = StartPos
                 /\ target_pos' = <<r, c>>
                 /\ tape' = Record(g1, t1, c)
                 /\ rng' = Advance(g1)
                 /\ first_goal' =
                      IF seed # <<>> /\ first_goal[seed[1]] = <<>>
                      THEN [first_goal EXCEPT ![seed[1]] = <<r, c>>]
                      ELSE first_goal
                 /\ repeated' = (seed # <<>> /\ first_goal[seed[1]] # <<>>)

\* reset fails in a randint: robot_pos is assigned, target_pos is not.
RobotResetRaises(seed) ==
    /\ EmptyRange(RandintRow(grid_rows)) \/ EmptyRange(RandintCol(grid_cols))
    /\ robot_pos' = StartPos
    /\ target_pos' = target_pos
    /\ UNCHANGED <<first_goal, repeated>>
    /\ IF EmptyRange(RandintRow(grid_rows))
       THEN /\ rng' = ResetSeed(seed)
            /\ tape' = tape
       ELSE LET g0 == ResetSeed(seed)
                rb == RandintRow(grid_rows)
            IN \E r \in RandintValues(g0, tape, rb.lo, rb.hi) :
                 /\ tape' = Record(g0, tape, r)
                 /\ rng' = Advance(g0)

(***************************************************************************)
(* WarehouseRobotEnv                                                       *)
(***************************************************************************)
\* Observation with the target ahead of the robot.
ObservationGoalFirst(pos, target) == target \o pos

\* np.concatenate((robot_pos, target_pos))
Observation(pos, target) == pos \o target

\* WarehouseRobotEnv.__init__ -> WarehouseRobot.__init__
Construct ==
    /\ obj = "new"
    /\ \/ /\ RobotResetOk(<<>>)
          /\ obj' = "ready"
          /\ ret' = Called("init", <<>>)
       \/ /\ RobotResetRaises(<<>>)
          /\ obj' = "failed"
          /\ ret' = Raised("init", <<>>, "ValueError")
    /\ last_action' = <<>>
    /\ UNCHANGED <<grid_rows, grid_cols>>

\* WarehouseRobotEnv.reset(seed)
EnvReset(seed) ==
    /\ obj = "ready"
    /\ RobotResetOk(seed)
    /\ ret' = [Called("reset", seed) EXCEPT
                 !.obs = Observation(robot_pos', target_pos')]
    /\ UNCHANGED <<obj, grid_rows, grid_cols, last_action>>

\* ValidAction of a step that passes the index on unconverted.
AnyAction(act) == TRUE

\* step, line 113: wr.RobotAction(action) accepts the values of the enumeration
ValidAction(act) == act \in RobotAction

\* step, lines 116-120: reward and terminated from target_reached
Reward(target_reached) == IF target_reached THEN 1 ELSE 0

\* Terminated of a step that never ends an episode.
TerminatedNever(target_reached) == FALSE

Terminated(target_reached) == target_reached

\* step, line 135: truncated
Truncated == FALSE

\* WarehouseRobotEnv.step(action)
EnvStep(act) ==
    /\ obj = "ready"
    /\ IF ValidAction(act)
       THEN LET pos == Move(robot_pos, act, grid_rows, grid_cols)
                target_reached == TargetReached(pos, target_pos)
            IN /\ last_action' = <<act>>
               /\ robot_pos' = pos
               /\ ret' = [Called("step", <<act>>) EXCEPT
                            !.obs = Observation(pos, target_pos),
                            !.reward = Reward(target_reached),
                            !.terminated = Terminated(target_reached),
                            !.truncated = Truncated]
       ELSE \* wr.RobotAction(action) raises ValueError
            /\ ret' = Raised("step", <<act>>, "ValueError")
            /\ UNCHANGED <<last_action, robot_pos>>
    /\ repeated' = FALSE
    /\ UNCHANGED <<obj, grid_rows, grid_cols, target_pos, rng, tape, first_goal>>

\* random.random(): one value is drawn from the shared generator.
RandomDraw ==
    /\ rng.src # <<>> => rng.pos < MaxPos
    /\ rng' = Advance(rng)

(***************************************************************************)
(* A client of the environment.                                            *)
(***************************************************************************)
ClientConstruct == Construct /\ UNCHANGED runVars

ClientReset == (\E seed \in SeedArgs : EnvReset(seed)) /\ UNCHANGED runVars

ClientStep ==
    /\ \E a \in RobotAction \cup InvalidActions : EnvStep(a)
    /\ UNCHANGED runVars

ClientRandom ==
    /\ obj = "ready"
    /\ RandomDraw
    /\ UNCHANGED <<obj, grid_rows, grid_cols, robot_pos, target_pos,
                   last_action, tape, ret, first_goal, repeated>>
    /\ UNCHANGED runVars

(***************************************************************************)
(* Numbers of run_q.  The code computes in floating point; the model holds *)
(* a real x as the integer x * FxOne, FxDigits decimal digits.             *)
(***************************************************************************)
FxDigits == 4
FxOne == 10 ^ FxDigits

\* learning_rate_a = 0.9 and discount_factor_g = 0.9, in tenths
learning_rate_a == 9
discount_factor_g == 9
Tenths == 10

\* Values random.random() returns, all in [0, 1).
RandomValues == {0, FxOne \div 2, FxOne - 1}

\* np.zeros((grid_rows, grid_cols, grid_rows, grid_cols, action_space.n))
States(rows, cols) ==
    {<<ar, ac, gr, gc>> : ar \in 0..(rows - 1), ac \in 0..(cols - 1),
                          gr \in 0..(rows - 1), gc \in 0..(cols - 1)}

Zeros(rows, cols) == [s \in States(rows, cols) |-> [a \in RobotAction |-> 0]]

\* A table as a finished training run leaves it in the file: the actions that
\* bring the robot nearer to the target hold a positive value.
Dist(p, t) ==
    (IF p[1] > t[1] THEN p[1] - t[1] ELSE t[1] - p[1])
    + (IF p[2] > t[2] THEN p[2] - t[2] ELSE t[2] - p[2])

Trained(rows, cols) ==
    [s \in States(rows, cols) |->
        [a \in RobotAction |->
            IF Dist(Move(<<s[1], s[2]>>, a, rows, cols), <<s[3], s[4]>>)
                 < Dist(<<s[1], s[2]>>, <<s[3], s[4]>>)
            THEN FxOne \div 2 ELSE 0]]

\* np.max(row)
RowMax(row) == CHOOSE m \in {row[a] : a \in RobotAction} :
                   \A b \in RobotAction : row[b] <= m

\* np.argmax(row): the index of the first occurrence of the maximum.
RECURSIVE ArgmaxFrom(_, _, _)
ArgmaxFrom(row, best, a) ==
    IF a > UP THEN best
    ELSE ArgmaxFrom(row, IF row[a] > row[best] THEN a ELSE best, a + 1)

\* Argmax returning the last occurrence of the maximum.
RECURSIVE ArgmaxLastFrom(_, _, _)
ArgmaxLastFrom(row, best, a) ==
    IF a > UP THEN best
    ELSE ArgmaxLastFrom(row, IF row[a] >= row[best] THEN a ELSE best, a + 1)

ArgmaxLast(row) == ArgmaxLastFrom(row, LEFT, LEFT + 1)

Argmax(row) == ArgmaxFrom(row, LEFT, LEFT + 1)

\* Explore of a run that never takes the random branch.
ExploreNever(training, u, eps) == FALSE

\* line 76: is_training and random.random() < epsilon
Explore(training, u, eps) == training /\ u < eps

\* TableUpdated of a loop that updates the table in every mode.
TableUpdatedAlways(training) == TRUE

\* line 96: if is_training
TableUpdated(training) == training

\* StateActionIdx built from the state after the step.
StateActionIdxNew(s, ns, a) == <<ns, a>>

\* line 90: the entry the update writes
StateActionIdx(s, ns, a) == <<s, a>>

\* line 93: the row the update bootstraps from
NewStateIdx(s, ns) == ns

\* lines 97-99: the value written to q[q_state_action_idx]
QUpdate(old, r, next_max) ==
    old + (learning_rate_a
             * (r * FxOne + (discount_factor_g * next_max) \div Tenths - old))
          \div Tenths

\* line 111: epsilon = max(epsilon - 1/episodes, 0)
EpsilonDecay(eps, n) ==
    IF eps - FxOne \div n > 0 THEN eps - FxOne \div n ELSE 0

(***************************************************************************)
(* run_q(episodes, is_training)                                            *)
(***************************************************************************)
loopLocals == <<branch, action, reward>>

\* lines 33-58: gym.make, the Q-table, the hyperparameters, the counters
RunStart ==
    /\ pc = "start"
    /\ Construct
    /\ IF obj' = "failed" \/ (~is_training /\ pkl = <<>>)
       THEN \* the constructor raised, or open() found no file
            /\ pc' = "failed"
            /\ UNCHANGED <<q, epsilon, steps_per_episode, step_count, i>>
       ELSE /\ q' = IF is_training THEN Zeros(grid_rows, grid_cols) ELSE pkl
            /\ epsilon' = FxOne
            /\ steps_per_episode' = [e \in 1..episodes |-> 0]
            /\ step_count' = 0
            /\ i' = 0
            /\ pc' = "for"
    /\ UNCHANGED <<episodes, is_training, pkl, state, terminated, sum_steps>>
    /\ UNCHANGED <<loopLocals, history>>

\* EpisodesLeft of a loop that runs once more than range(episodes).
EpisodesLeftInclusive(k, n) == k <= n

\* line 59: for i in range(episodes)
EpisodesLeft(k, n) == k < n

\* StepCountAfter of a loop that never sets the counter back.
StepCountKept(count, term) == count + 1

\* lines 105-108: step_count after the pass
StepCountAfter(count, term) == IF term THEN 0 ELSE count + 1

\* lines 59-66: the next episode begins
EpisodeBegin ==
    /\ pc = "for"
    /\ EpisodesLeft(i, episodes)
    /\ EnvReset(<<>>)
    /\ state' = ret'.obs
    /\ terminated' = FALSE
    /\ pc' = "while"
    /\ reset_calls' = reset_calls + 1
    /\ step_calls' = 0
    /\ UNCHANGED <<episodes, is_training, pkl, q, epsilon, steps_per_episode,
                   step_count, i, sum_steps>>
    /\ UNCHANGED loopLocals

\* A counter of steps is held up to MaxSteps.
UpTo(n) == IF n > MaxSteps THEN MaxSteps ELSE n

\* lines 69-108: one pass of the while loop
LoopPass ==
    /\ pc = "while"
    /\ ~terminated
    /\ state \in DOMAIN q
    /\ \E u \in RandomValues, sample \in RobotAction :
         /\ IF Explore(is_training, u, epsilon)
            THEN action' = sample /\ branch' = "random"
            ELSE action' = Argmax(q[state]) /\ branch' = "greedy"
         /\ EnvStep(action')
    /\ reward' = ret'.reward
    /\ terminated' = ret'.terminated
    /\ LET new_state == ret'.obs
           q_state_action_idx == StateActionIdx(state, new_state, action')
           q_new_state_idx == NewStateIdx(state, new_state)
       IN q' = IF TableUpdated(is_training)
               THEN [q EXCEPT ![q_state_action_idx[1]][q_state_action_idx[2]] =
                        QUpdate(@, reward', RowMax(q[q_new_state_idx]))]
               ELSE q
    /\ state' = ret'.obs
    /\ IF terminated'
       THEN /\ steps_per_episode' =
                 [steps_per_episode EXCEPT ![i + 1] = UpTo(step_count + 1)]
            /\ pc' = "decay"
       ELSE /\ steps_per_episode' = steps_per_episode
            /\ pc' = "while"
    /\ step_count' = UpTo(StepCountAfter(step_count, terminated'))
    /\ step_calls' = UpTo(step_calls + 1)
    /\ UNCHANGED <<episodes, is_training, pkl, epsilon, i, sum_steps, reset_calls>>

\* The pass in a run whose episodes take at most MaxSteps steps: the counters
\* hold the exact numbers.
LoopStep ==
    /\ step_count < MaxSteps
    /\ LoopPass

\* line 83: state is not an index of the table that was loaded, q[...] raises
\* IndexError and run_q ends
SelectRaises ==
    /\ pc = "while"
    /\ ~terminated
    /\ state \notin DOMAIN q
    /\ pc' = "failed"
    /\ UNCHANGED envVars
    /\ UNCHANGED <<episodes, is_training, pkl, q, epsilon, steps_per_episode,
                   step_count, i, state, terminated, sum_steps>>
    /\ UNCHANGED <<loopLocals, history>>

\* lines 110-111: the while loop is left, epsilon decays
EpisodeEnd ==
    /\ pc = "decay"
    /\ epsilon' = EpsilonDecay(epsilon, episodes)
    /\ i' = i + 1
    /\ pc' = "for"
    /\ UNCHANGED envVars
    /\ UNCHANGED <<episodes, is_training, pkl, q, steps_per_episode, step_count,
                   state, terminated, sum_steps>>
    /\ UNCHANGED <<loopLocals, history>>

\* line 122: steps_per_episode[max(0, t-100):(t+1)], t counted from 0
WindowBack == 100

WindowFirst(t) == IF t - WindowBack > 0 THEN t - WindowBack ELSE 0

RECURSIVE SumFrom(_, _, _)
SumFrom(xs, lo, hi) == IF lo > hi THEN 0 ELSE xs[lo] + SumFrom(xs, lo + 1, hi)

\* line 122: np.mean of that slice, in fixed point
WindowMean(xs, t) ==
    (SumFrom(xs, WindowFirst(t) + 1, t + 1) * FxOne) \div (t + 1 - WindowFirst(t))

\* lines 113-130: the for loop is left, the averages are computed, the table
\* is saved when training
Finish ==
    /\ pc = "for"
    /\ ~EpisodesLeft(i, episodes)
    /\ sum_steps' = [t \in 1..episodes |-> WindowMean(steps_per_episode, t - 1)]
    /\ pkl' = IF is_training THEN q ELSE pkl
    /\ pc' = "done"
    /\ UNCHANGED envVars
    /\ UNCHANGED <<episodes, is_training, q, epsilon, steps_per_episode,
                   step_count, i, state, terminated>>
    /\ UNCHANGED <<loopLocals, history>>

vars == <<envVars, runVars>>

\* Values tried for the parameter episodes.
EpisodeArgs == {1, 2}

\* Files run_q may find when it does not train: none, tables of a run on
\* this grid, and tables a run on a smaller and on a larger grid has left.
PklFiles(rows, cols) ==
    {<<>>, Zeros(rows, cols), Trained(rows, cols),
     Trained(rows - 1, cols - 1), Trained(rows + 1, cols + 1)}

\* Before the environment is constructed and before run_q has assigned anything.
EnvInit ==
    /\ obj = "new"
    /\ grid_rows \in RowArgs
    /\ grid_cols \in ColArgs
    /\ robot_pos = <<>>
    /\ target_pos = <<>>
    /\ last_action = <<>>
    /\ rng = OsEntropy
    /\ tape = [k \in Seeds |-> <<>>]
    /\ ret = NoCall
    /\ first_goal = [k \in Seeds |-> <<>>]
    /\ repeated = FALSE

RunInit ==
    /\ pc = "start"
    /\ q = <<>>
    /\ epsilon = 0
    /\ steps_per_episode = <<>>
    /\ step_count = 0
    /\ i = 0
    /\ state = <<>>
    /\ terminated = FALSE
    /\ branch = "none"
    /\ action = LEFT
    /\ reward = 0
    /\ sum_steps = <<>>
    /\ reset_calls = 0
    /\ step_calls = 0

(***************************************************************************)
(* Spec: the environment under an arbitrary client of its interface.       *)
(***************************************************************************)
Init ==
    /\ EnvInit
    /\ RunInit
    /\ episodes = 1
    /\ is_training = FALSE
    /\ pkl = <<>>

Next ==
    \/ ClientConstruct
    \/ ClientReset
    \/ ClientStep
    \/ ClientRandom

Spec == Init /\ [][Next]_vars

(***************************************************************************)
(* TrainSpec: run_q(episodes, is_training) and the environment it makes.   *)
(***************************************************************************)
TrainInit ==
    /\ EnvInit
    /\ RunInit
    /\ episodes \in EpisodeArgs
    /\ is_training \in BOOLEAN
    /\ pkl \in IF is_training THEN {<<>>} ELSE PklFiles(grid_rows, grid_cols)

TrainNext ==
    \/ RunStart
    \/ EpisodeBegin
    \/ LoopStep
    \/ SelectRaises
    \/ EpisodeEnd
    \/ Finish

TrainSpec == TrainInit /\ [][TrainNext]_vars

(***************************************************************************)
(* FairTrainSpec: run_q with episodes of any length.  Every statement of   *)
(* the run is executed once it is reached, and the draws of line 76 and    *)
(* line 77 are fair: when the robot is again and again d cells away from   *)
(* the target, the random branch again and again samples there an action   *)
(* that brings it nearer.                                                  *)
(* An episode of unbounded length leaves unboundedly many tables behind,   *)
(* so the training runs taken here have one episode.                       *)
(***************************************************************************)
FairInit ==
    /\ EnvInit
    /\ RunInit
    /\ is_training \in BOOLEAN
    /\ episodes \in IF is_training THEN {1} ELSE EpisodeArgs
    /\ pkl \in IF is_training THEN {<<>>} ELSE PklFiles(grid_rows, grid_cols)

Distances == 1..(MaxRows + MaxCols - 2)

\* lines 76-86, d cells from the target: the random branch is taken and the
\* action it samples brings the robot nearer
ApproachFrom(d) ==
    /\ LoopPass
    /\ Dist(robot_pos, target_pos) = d
    /\ branch' = "random"
    /\ Dist(robot_pos', target_pos) < d

FairNext ==
    \/ RunStart
    \/ EpisodeBegin
    \/ LoopPass
    \/ SelectRaises
    \/ EpisodeEnd
    \/ Finish

FairTrainSpec ==
    /\ FairInit
    /\ [][FairNext]_vars
    /\ WF_vars(FairNext)
    /\ \A d \in Distances : SF_vars(ApproachFrom(d))

(***************************************************************************)
(* DecaySpec: the schedule of epsilon alone, lines 52 and 111 applied      *)
(* episodes times, for episode counts up to MaxEpisodes.                   *)
(***************************************************************************)
MaxEpisodes == 16

DecayInit ==
    /\ EnvInit
    /\ grid_rows = MaxRows /\ grid_cols = MaxCols
    /\ episodes \in 1..MaxEpisodes
    /\ is_training = TRUE
    /\ pkl = <<>>
    /\ pc = "decay"
    /\ q = <<>>
    /\ epsilon = FxOne
    /\ steps_per_episode = <<>>
    /\ step_count = 0
    /\ i = 0
    /\ state = <<>>
    /\ terminated = FALSE
    /\ branch = "none"
    /\ action = LEFT
    /\ reward = 0
    /\ sum_steps = <<>>
    /\ reset_calls = 0
    /\ step_calls = 0

\* line 111 at the end of episode i; after the last one the loop is left
Decay ==
    /\ pc = "decay"
    /\ epsilon' = EpsilonDecay(epsilon, episodes)
    /\ i' = i + 1
    /\ pc' = IF i + 1 < episodes THEN "decay" ELSE "done"
    /\ UNCHANGED envVars
    /\ UNCHANGED <<episodes, is_training, pkl, q, steps_per_episode, step_count,
                   state, terminated, sum_steps>>
    /\ UNCHANGED <<loopLocals, history>>

DecayNext == Decay

DecaySpec == DecayInit /\ [][DecayNext]_vars

(***************************************************************************)
(* WindowSpec: lines 120-130 alone, applied to the series a run of about   *)
(* WindowBack episodes leaves behind: every episode took two steps but     *)
(* one, which took four.                                                   *)
(***************************************************************************)
SeriesLengths == (WindowBack - 1)..(WindowBack + 2)

Series(n) == {[e \in 1..n |-> IF e = k THEN 4 ELSE 2] : k \in 1..n}

WindowInit ==
    /\ EnvInit
    /\ grid_rows = MaxRows /\ grid_cols = MaxCols
    /\ episodes \in SeriesLengths
    /\ is_training = FALSE
    /\ pkl = <<>>
    /\ pc = "for"
    /\ q = <<>>
    /\ epsilon = 0
    /\ steps_per_episode \in Series(episodes)
    /\ step_count = 0
    /\ i = episodes
    /\ state = <<>>
    /\ terminated = TRUE
    /\ branch = "none"
    /\ action = LEFT
    /\ reward = 0
    /\ sum_steps = <<>>
    /\ reset_calls = 0
    /\ step_calls = 0

WindowNext == Finish

WindowSpec == WindowInit /\ [][WindowNext]_vars

(***************************************************************************)
(* Properties                                                              *)
(***************************************************************************)

\* C1: on every grid with at least 2 rows and 2 columns, after any sequence
\* of reset and step calls, the robot's row is in 0..grid_rows-1 and its
\* column in 0..grid_cols-1.
C1_AgentInBounds ==
    (grid_rows >= 2 /\ grid_cols >= 2 /\ robot_pos # <<>>)
        => /\ 0 <= robot_pos[1] /\ robot_pos[1] <= grid_rows - 1
           /\ 0 <= robot_pos[2] /\ robot_pos[2] <= grid_cols - 1

\* The robot stands in the far corner of the largest grid after a step DOWN.
C1_Witness ==
    /\ grid_rows = MaxRows /\ grid_cols = MaxCols
    /\ ret.call = "step" /\ ret.arg = <<DOWN>>
    /\ robot_pos = <<grid_rows - 1, grid_cols - 1>>

\* C2: after every reset, seeded or not, and in every state reached
\* afterwards, the target's row is in 1..grid_rows-1 and its column in
\* 1..grid_cols-1: never row 0, never column 0, never (0,0).
C2_GoalInterior ==
    target_pos # <<>>
        => /\ grid_rows >= 2 /\ grid_cols >= 2
           /\ 1 <= target_pos[1] /\ target_pos[1] <= grid_rows - 1
           /\ 1 <= target_pos[2] /\ target_pos[2] <= grid_cols - 1
           /\ target_pos # <<0, 0>>

\* A seeded reset placed the target in the last row and column.
C2_Witness ==
    /\ ret.call = "reset" /\ ret.arg # <<>>
    /\ grid_rows = MaxRows /\ grid_cols = MaxCols
    /\ target_pos = <<grid_rows - 1, grid_cols - 1>>

\* C3: step returns terminated = true exactly when the robot's position
\* after the move equals the target, reward 1 exactly when terminated and 0
\* otherwise, and truncated = false on every step.
C3_StepResult ==
    (ret.call = "step" /\ ret.kind = "ok")
        => /\ ret.terminated <=> (robot_pos = target_pos)
           /\ ret.terminated => ret.reward = 1
           /\ ~ret.terminated => ret.reward = 0
           /\ ret.truncated = FALSE

\* A step reached the target and returned reward 1, terminated, not truncated.
C3_Witness ==
    /\ ret.call = "step" /\ ret.kind = "ok"
    /\ robot_pos = target_pos
    /\ ret.reward = 1 /\ ret.terminated /\ ~ret.truncated

\* The cell one step from p in the direction the index a encodes:
\* 0 left (column - 1), 1 down (row + 1), 2 right (column + 1), 3 up (row - 1).
C4_Dest(p, a) ==
    <<p[1] + (IF a = 1 THEN 1 ELSE IF a = 3 THEN -1 ELSE 0),
      p[2] + (IF a = 2 THEN 1 ELSE IF a = 0 THEN -1 ELSE 0)>>

C4_InGrid(p) ==
    /\ 0 <= p[1] /\ p[1] <= grid_rows - 1
    /\ 0 <= p[2] /\ p[2] <= grid_cols - 1

\* C4: every step with an index in 0..3 returns normally and moves the robot
\* exactly one cell in the encoded direction when that cell is in the grid,
\* and leaves the robot where it is when the cell is outside the grid.
C4_MoveOneCell ==
    [][(ret' # ret /\ ret'.call = "step" /\ ret'.arg[1] \in 0..3)
          => /\ ret'.kind = "ok"
             /\ robot_pos' = IF C4_InGrid(C4_Dest(robot_pos, ret'.arg[1]))
                             THEN C4_Dest(robot_pos, ret'.arg[1])
                             ELSE robot_pos]_vars

\* A step RIGHT brought the robot to the last column of row 0, and the
\* observation it returned shows it there.
C4_Witness ==
    /\ ret.call = "step" /\ ret.arg = <<2>> /\ ret.kind = "ok"
    /\ grid_cols = MaxCols
    /\ robot_pos = <<0, grid_cols - 1>>
    /\ ret.obs[2] = grid_cols - 1

\* C5: after any earlier resets and steps, reset puts the robot at (0,0) and
\* returns the observation (0, 0, target row, target column) of the target
\* it placed together with an empty info record.
C5_ResetObservation ==
    ret.call = "reset"
        => /\ ret.kind = "ok"
           /\ robot_pos = <<0, 0>>
           /\ ret.obs = <<0, 0, target_pos[1], target_pos[2]>>
           /\ ret.info = <<>>

\* A reset after the robot had stepped DOWN.
C5_Witness ==
    /\ ret.call = "reset"
    /\ last_action = <<DOWN>>
    /\ robot_pos = <<0, 0>>

\* C6: reset(seed=k) places the target where the first reset(seed=k) placed
\* it, whatever resets, steps and random draws happened in between.
C6_SameSeedSameGoal ==
    \A k \in Seeds :
        (ret.call = "reset" /\ ret.arg = <<k>>) => target_pos = first_goal[k]

\* A seed is used again after steps were taken and after the other seed had
\* placed the target elsewhere.
C6_Witness ==
    /\ ret.call = "reset" /\ ret.arg = <<0>> /\ repeated
    /\ last_action # <<>>
    /\ first_goal[1] # <<>> /\ first_goal[1] # first_goal[0]

\* C7: step with an index outside 0..3 raises an error instead of returning
\* a result and leaves the robot's position, the target and the recorded
\* last action as they were.
C7_InvalidActionFails ==
    [][(ret' # ret /\ ret'.call = "step" /\ ret'.arg[1] \notin 0..3)
          => /\ ret'.kind # "ok"
             /\ ret'.obs = <<>>
             /\ robot_pos' = robot_pos
             /\ target_pos' = target_pos
             /\ last_action' = last_action]_vars

\* A step with index 4 raised after the robot had moved off the start cell.
C7_Witness ==
    /\ ret.call = "step" /\ ret.arg = <<4>> /\ ret.kind = "ValueError"
    /\ robot_pos # <<0, 0>>
    /\ last_action # <<>>

\* C8: with grid_rows < 2 or grid_cols < 2 the construction raises: the run
\* never gets past it, no reset or step is ever answered, no Q-table is ever
\* made and no target is ever placed.
C8_SmallGridFails ==
    (grid_rows < 2 \/ grid_cols < 2)
        => /\ obj \in {"new", "failed"}
           /\ pc \in {"start", "failed"}
           /\ obj = "failed" <=> pc = "failed"
           /\ obj = "failed" => (ret.call = "init" /\ ret.kind = "ValueError")
           /\ ret.call \in {"none", "init"}
           /\ target_pos = <<>>
           /\ q = <<>>

\* The construction raised on a grid whose rows suffice and whose columns do not.
C8_Witness ==
    /\ grid_rows >= 2 /\ grid_cols < 2
    /\ is_training
    /\ obj = "failed" /\ pc = "failed"
    /\ ret.kind = "ValueError"

\* The lowest index among the actions whose value in the row is maximal.
C9_LowestMaximal(row) ==
    CHOOSE a \in 0..3 :
        /\ \A b \in 0..3 : row[b] <= row[a]
        /\ \A b \in 0..3 : b < a => row[b] < row[a]

\* C9: when the run does not train, or epsilon is 0, the action chosen in
\* state s is the lowest-index action of maximal Q[s,a] and the random
\* branch is not taken; when it trains with epsilon = 1 the greedy branch is
\* not taken.
C9_ActionSelection ==
    [][(pc = "while" /\ pc' # "failed")
          => /\ (~is_training \/ epsilon = 0)
                  => /\ branch' = "greedy"
                     /\ action' = C9_LowestMaximal(q[state])
             /\ (is_training /\ epsilon = FxOne) => branch' = "random"]_vars

\* An evaluation run took its first step from a row in which DOWN and RIGHT
\* tie for the maximum, and took DOWN.
C9_Witness ==
    /\ ~is_training /\ pc = "while" /\ step_count = 1
    /\ branch = "greedy" /\ action = 1
    /\ LET row == q[<<0, 0, target_pos[1], target_pos[2]>>]
       IN row[1] = row[2] /\ row[1] > row[0] /\ row[1] > row[3]

\* Q[s,a] + alpha * (r + gamma * next_max - Q[s,a]) with alpha = gamma = 0.9
C10_Target(old, r, next_max) ==
    old + (9 * (r * FxOne + (9 * next_max) \div 10 - old)) \div 10

C10_Max(row) == CHOOSE m \in {row[a] : a \in 0..3} : \A a \in 0..3 : row[a] <= m

\* C10: a training step from state s with action a to state s' with reward r
\* sets Q[s,a] to Q[s,a] + alpha*(r + gamma*max Q[s',.] - Q[s,a]), s being
\* the state before the step and s' the state after it, and changes no other
\* entry of the table.
C10_QUpdate ==
    [][(pc = "while" /\ is_training)
          => q' = [q EXCEPT ![state][action'] =
                      C10_Target(q[state][action'], reward', C10_Max(q[state']))]]_vars

\* The first rewarded step of a training run: Q = 0, reward 1 and next
\* maximum 0 gave 0.9, every other entry is still 0.
C10_Witness ==
    /\ is_training /\ pc = "decay" /\ i = 0 /\ reward = 1
    /\ \E s \in DOMAIN q :
         /\ q[s][action] = (9 * FxOne) \div 10
         /\ \A t \in DOMAIN q : \A a \in RobotAction :
              (t # s \/ a # action) => q[t][a] = 0
         /\ q[state] = [a \in RobotAction |-> 0]

\* C11: when the run does not train, no step of any episode changes an entry
\* of the Q-table and the file is not written at the end of the run; the file
\* is written only by a training run, once its last episode is over, and
\* then holds the table.
C11_EvalWritesNothing ==
    [][/\ (~is_training /\ pc # "start") => q' = q
       /\ ~is_training => pkl' = pkl
       /\ pkl' # pkl => /\ is_training
                        /\ pc = "for" /\ i = episodes /\ pc' = "done"
                        /\ pkl' = q]_vars

\* An evaluation run of two episodes is over: both reached the target, the
\* table is the one that was loaded and the file still holds it.
C11_Witness ==
    /\ ~is_training /\ pc = "done" /\ episodes = 2
    /\ steps_per_episode[1] > 0 /\ steps_per_episode[2] > 0
    /\ q = pkl /\ q = Trained(grid_rows, grid_cols)

\* C12: for every episode count N >= 1, epsilon starts at 1, never grows on
\* a decay, is never negative, and is exactly 0 after the N-th decay.
C12_EpsilonSchedule ==
    [][/\ epsilon' <= epsilon
       /\ epsilon' >= 0
       /\ i' = episodes => epsilon' = 0]_vars

\* An episode has ended when its terminating step has been taken.
C13_Ended(e) == e <= i \/ (e = i + 1 /\ pc = "decay")

\* C13: the step counter is 0 when an episode starts and grows by one with
\* every step of the environment; the terminating step of episode i records
\* the number of steps taken in episode i at index i of the series and sets
\* the counter back to 0; an entry is written once, and exactly the episodes
\* that have ended have one.
C13_StepCounter ==
    [][/\ (pc = "for" /\ pc' = "while") => (step_count' = 0 /\ step_calls' = 0)
       /\ (pc = "while" /\ pc' # "failed")
            => /\ step_calls' = step_calls + 1
               /\ IF terminated'
                  THEN /\ steps_per_episode[i + 1] = 0
                       /\ steps_per_episode' =
                            [steps_per_episode EXCEPT ![i + 1] = step_calls']
                       /\ step_count' = 0
                  ELSE /\ step_count' = step_count + 1
                       /\ step_count' = step_calls'
                       /\ steps_per_episode' = steps_per_episode
       /\ pc \notin {"start", "while"} => steps_per_episode' = steps_per_episode
       /\ pc' \in {"for", "while", "decay", "done"}
            => (\A e \in 1..episodes :
                   (C13_Ended(e))' <=> steps_per_episode'[e] > 0)]_vars

\* A training run of two episodes is over: the first took four steps, the
\* second two, and the counter is back at 0.
C13_Witness ==
    /\ is_training /\ pc = "done" /\ episodes = 2
    /\ steps_per_episode = <<4, 2>>
    /\ step_count = 0 /\ step_calls = 2

\* C14: a run of N episodes resets the environment once per episode; a
\* reset other than the first comes directly after a step that returned
\* terminated; no step follows a terminating step within an episode; the
\* run is over exactly when the N-th episode has terminated, and no episode
\* N + 1 is begun.
C14_EpisodeOrder ==
    [][/\ pc' \in {"while", "decay"} => reset_calls' = i' + 1
       /\ pc' \in {"for", "done"} => reset_calls' = i'
       /\ reset_calls' <= episodes
       /\ reset_calls' # reset_calls
            => /\ ret'.call = "reset"
               /\ IF reset_calls = 0 THEN ret.call = "init"
                  ELSE ret.call = "step" /\ ret.terminated
       /\ (ret'.call = "step" /\ step_calls' # step_calls)
            => ~(ret.call = "step" /\ ret.terminated)
       /\ (pc' = "done" /\ pc # "done")
            => /\ reset_calls = episodes /\ i = episodes
               /\ ret.call = "step" /\ ret.terminated
       /\ (pc = "for" /\ i = episodes) => pc' = "done"]_vars

\* The second and last episode of a run has been reset and ended, the run
\* is over after two resets.
C14_Witness ==
    /\ pc = "done" /\ episodes = 2 /\ i = 2 /\ reset_calls = 2
    /\ ret.call = "step" /\ ret.terminated

C16_Size(t) == IF t + 1 < 100 THEN t + 1 ELSE 100

\* C16: the value reported for episode t, counted from 0, is the mean of the
\* step counts of the min(100, t + 1) episodes that end with t: never more
\* than 100 entries, never an entry of a later episode.
C16_TrailingWindow ==
    pc = "done"
        => \A t \in 0..(episodes - 1) :
              sum_steps[t + 1] =
                  (SumFrom(steps_per_episode, t + 2 - C16_Size(t), t + 1) * FxOne)
                      \div C16_Size(t)

\* C17: when the run does not train and the file holds a table whose shape
\* is not that of the grid, the run ends with an error before any episode:
\* the environment is never reset or stepped and no action is selected.
C17_MismatchRejected ==
    (/\ ~is_training /\ pkl # <<>> /\ pc # "start"
     /\ DOMAIN pkl # States(grid_rows, grid_cols))
        => /\ pc = "failed"
           /\ reset_calls = 0
           /\ ret.call \notin {"reset", "step"}
           /\ branch = "none"

\* C18: a reset, with any seed or with none, leaves the generator that the
\* explore decision of line 76 draws from in the state it was in, so that
\* the values drawn afterwards do not depend on the reset or on its seed.
C18_ResetKeepsGenerator ==
    [][(ret' # ret /\ ret'.call = "reset") => rng' = rng]_vars

\* C19: a step, whatever its action, a bump into a wall and the terminating
\* step included, leaves the target and the size of the grid as they were,
\* and the target part of the observation it returns is that of the
\* observation returned before it, back to the last reset.
C19_StepKeepsGoal ==
    [][(ret' # ret /\ ret'.call = "step")
          => /\ target_pos' = target_pos
             /\ grid_rows' = grid_rows /\ grid_cols' = grid_cols
             /\ ret'.kind = "ok"
                  => /\ <<ret'.obs[3], ret'.obs[4]>> = target_pos
                     /\ (ret.call \in {"reset", "step"} /\ ret.kind = "ok")
                          => <<ret'.obs[3], ret'.obs[4]>> = <<ret.obs[3], ret.obs[4]>>]_vars

\* The terminating step on the largest grid, the target in the far corner:
\* the observation shows the target where the reset placed it.
C19_Witness ==
    /\ ret.call = "step" /\ ret.kind = "ok" /\ ret.terminated
    /\ grid_rows = MaxRows /\ grid_cols = MaxCols
    /\ target_pos = <<grid_rows - 1, grid_cols - 1>>
    /\ ret.obs = <<grid_rows - 1, grid_cols - 1, grid_rows - 1, grid_cols - 1>>

\* The robot of state s stands on the target.
C20_AtGoal(s) == s[1] = s[3] /\ s[2] = s[4]

\* C20: in a training run, which starts from the all-zero table, every entry
\* of a state in which the robot stands on the target stays 0; such a state
\* is never the state a pass of the loop starts from, only the state the
\* terminating step leads to, and the maximum the update takes from its row
\* is 0 on every terminating step.
C20_GoalRowsZero ==
    (is_training /\ pc \in {"for", "while", "decay", "done"})
        => /\ \A s \in DOMAIN q :
                C20_AtGoal(s) => \A a \in 0..3 : q[s][a] = 0
           /\ pc = "while" => ~C20_AtGoal(state)
           /\ pc = "decay"
                => /\ C20_AtGoal(state)
                   /\ terminated /\ reward = 1
                   /\ \A a \in 0..3 : q[state][a] = 0

\* The second episode of a training run has just ended with a rewarded
\* step; the table holds values written in both episodes.
C20_Witness ==
    /\ is_training /\ pc = "decay" /\ i = 1 /\ reward = 1
    /\ C20_AtGoal(state)
    /\ \E s, t \in DOMAIN q :
         /\ s # t
         /\ \E a \in 0..3 : q[s][a] > 0
         /\ \E a \in 0..3 : q[t][a] > 0

\* C21: the observation a reset returns never shows the robot on the
\* target; every recorded step count is at least 2, and the count recorded
\* for an episode is at least the target's row plus the target's column,
\* the distance from (0,0) to the target of that episode.
C21_StepsAtLeastDistance ==
    /\ ret.call = "reset"
         => <<ret.obs[1], ret.obs[2]>> # <<ret.obs[3], ret.obs[4]>>
    /\ pc \in {"for", "while", "decay", "done"}
         => \A e \in 1..episodes :
               steps_per_episode[e] # 0 => steps_per_episode[e] >= 2
    /\ pc = "decay"
         => /\ target_pos[1] + target_pos[2] >= 2
            /\ steps_per_episode[i + 1] >= target_pos[1] + target_pos[2]
    /\ (pc \in {"for", "done"} /\ i >= 1)
         => steps_per_episode[i] >= target_pos[1] + target_pos[2]

\* A training episode has just ended on the shortest way to a target more
\* than two cells from the start: the count recorded is the distance.
C21_Witness ==
    /\ is_training /\ pc = "decay"
    /\ target_pos[1] + target_pos[2] > 2
    /\ steps_per_episode[i + 1] = target_pos[1] + target_pos[2]

\* C22: a run that does not train and has loaded a table of the shape of
\* the grid, whatever its values, a row of all-equal values for the start
\* state included, eventually reaches the target in every episode and is
\* eventually over.
C22_EvalEnds ==
    (/\ ~is_training /\ pc = "for"
     /\ DOMAIN q = States(grid_rows, grid_cols))
        ~> (pc = "done")

=============================================================================
